---- MODULE Spec2Model ----
(***************************************************************************)
(* Model of the napi-rs command line crate: the target-triple parser of    *)
(* crates/cli/src/util.rs (PlatformDetail::from and its enums), the        *)
(* write_file utility, and the `new` scaffolding command of                *)
(* crates/cli/src/new.rs.                                                   *)
(*                                                                         *)
(* Strings are modelled as sequences of atoms.  An atom is either the      *)
(* separator character (Dash, Slash, At) or a maximal run of other         *)
(* characters, written as a TLA+ string ("x86_64").  Splitting, joining    *)
(* and formatting are computed on these sequences, so "" is <<>>,          *)
(* "x86_64-apple-darwin" is <<"x86_64","-","apple","-","darwin">>.         *)
(***************************************************************************)
EXTENDS Integers, Sequences, FiniteSets, TLC

VARIABLES
  \* ---- PlatformDetail::from, called on one triple ----
  triple,                  \* the &str argument
  ppc,                     \* "call" before the conversion, "return" after it
  detail,                  \* outcome of the call: a PlatformDetail or a panic
  \* ---- NewCommand and the process environment it runs in ----
  pc,                      \* position inside NewCommand::execute
  name,                    \* NewCommand.name    : Option<String>
  targets,                 \* NewCommand.targets : Option<Vec<String>>
  enable_default_targets,  \* NewCommand.enable_default_targets
  enable_all_targets,      \* NewCommand.enable_all_targets
  selected_target_indices, \* last value returned by the MultiSelect prompt
  name_prompts,            \* number of Input prompts shown
  target_prompts,          \* number of MultiSelect prompts shown
  NAPI_DEBUG,              \* the environment variable: unset, or the kind of its value
  dirs,                    \* directories that exist below/including self.path
  files,                   \* content of each file the command may write
  stdout                   \* lines printed by write_file

vars == <<triple, ppc, detail, pc, name, targets, enable_default_targets,
          enable_all_targets, selected_target_indices, name_prompts,
          target_prompts, NAPI_DEBUG, dirs, files, stdout>>

parseVars == <<triple, ppc, detail>>

newVars == <<pc, name, targets, enable_default_targets, enable_all_targets,
             selected_target_indices, name_prompts, target_prompts,
             NAPI_DEBUG, dirs, files, stdout>>

-----------------------------------------------------------------------------
(* Bounds of the model *)

\* longest triple drawn as input, in dash-separated segments
MaxSegs == 4

\* largest number of entries ticked in one MultiSelect prompt
MaxSelected == 2

\* largest number of MultiSelect prompts shown in one run
MaxPrompts == 2

-----------------------------------------------------------------------------
(* Strings and Option *)

Dash == "-"

Slash == "/"

At == "@"

None == [some |-> FALSE, val |-> <<>>]

Some(v) == [some |-> TRUE, val |-> v]

Range(s) == {s[i] : i \in 1..Len(s)}

\* str::split(sep).collect::<Vec<_>>(): the pieces between separators; a
\* string without separator (the empty one too) is one piece.
RECURSIVE SplitFrom(_, _, _, _)
SplitFrom(s, sep, i, cur) ==
  IF i > Len(s) THEN <<cur>>
  ELSE IF s[i] = sep THEN <<cur>> \o SplitFrom(s, sep, i + 1, <<>>)
  ELSE SplitFrom(s, sep, i + 1, Append(cur, s[i]))

Split(s, sep) == SplitFrom(s, sep, 1, <<>>)

\* the inverse of Split, used to build input strings from segments
RECURSIVE Join(_, _)
Join(segs, sep) ==
  IF Len(segs) = 0 THEN <<>>
  ELSE IF Len(segs) = 1 THEN segs[1]
  ELSE segs[1] \o <<sep>> \o Join(Tail(segs), sep)

-----------------------------------------------------------------------------
(* util.rs: target lists *)

AVAILABLE_TARGETS ==
  << <<"aarch64", "-", "apple", "-", "darwin">>,
     <<"aarch64", "-", "linux", "-", "android">>,
     <<"aarch64", "-", "unknown", "-", "linux", "-", "gnu">>,
     <<"aarch64", "-", "unknown", "-", "linux", "-", "musl">>,
     <<"aarch64", "-", "pc", "-", "windows", "-", "msvc">>,
     <<"x86_64", "-", "apple", "-", "darwin">>,
     <<"x86_64", "-", "pc", "-", "windows", "-", "msvc">>,
     <<"x86_64", "-", "unknown", "-", "linux", "-", "gnu">>,
     <<"x86_64", "-", "unknown", "-", "linux", "-", "musl">>,
     <<"x86_64", "-", "unknown", "-", "freebsd">>,
     <<"i686", "-", "pc", "-", "windows", "-", "msvc">>,
     <<"armv7", "-", "unknown", "-", "linux", "-", "gnueabihf">>,
     <<"armv7", "-", "linux", "-", "androideabi">> >>

DEFAULT_TARGETS ==
  << <<"x86_64", "-", "apple", "-", "darwin">>,
     <<"x86_64", "-", "pc", "-", "windows", "-", "msvc">>,
     <<"x86_64", "-", "unknown", "-", "linux", "-", "gnu">> >>

-----------------------------------------------------------------------------
(* util.rs: NodeArch, NodePlatform, PlatformDetail *)

NodeArch ==
  {"x32", "x64", "ia32", "arm", "arm64", "mips", "mipsel", "ppc", "ppc64",
   "s390", "s390x"}

\* NodeArch::from_str with the arm64 key spelled "aarch64"
NodeArch_from_str_aarch64(s) ==
  CASE s = <<"x32">>     -> Some("x32")
    [] s = <<"x86_64">>  -> Some("x64")
    [] s = <<"i686">>    -> Some("ia32")
    [] s = <<"armv7">>   -> Some("arm")
    [] s = <<"aarch64">> -> Some("arm64")
    [] s = <<"mips">>    -> Some("mips")
    [] s = <<"mipsel">>  -> Some("mipsel")
    [] s = <<"ppc">>     -> Some("ppc")
    [] s = <<"ppc64">>   -> Some("ppc64")
    [] s = <<"s390">>    -> Some("s390")
    [] s = <<"s390x">>   -> Some("s390x")
    [] OTHER             -> None

\* NodeArch::from_str: Option<NodeArch>, an exact match on the whole string
NodeArch_from_str(s) ==
  CASE s = <<"x32">>     -> Some("x32")
    [] s = <<"x86_64">>  -> Some("x64")
    [] s = <<"i686">>    -> Some("ia32")
    [] s = <<"armv7">>   -> Some("arm")
    [] s = <<"arrch64">> -> Some("arm64")
    [] s = <<"mips">>    -> Some("mips")
    [] s = <<"mipsel">>  -> Some("mipsel")
    [] s = <<"ppc">>     -> Some("ppc")
    [] s = <<"ppc64">>   -> Some("ppc64")
    [] s = <<"s390">>    -> Some("s390")
    [] s = <<"s390x">>   -> Some("s390x")
    [] OTHER             -> None

\* Display for NodeArch with arm64 printed like arm
NodeArch_fmt_arm64_as_arm(a) ==
  CASE a = "x32"    -> <<"x32">>
    [] a = "x64"    -> <<"x64">>
    [] a = "ia32"   -> <<"ia32">>
    [] a = "arm"    -> <<"arm">>
    [] a = "arm64"  -> <<"arm">>
    [] a = "mips"   -> <<"mips">>
    [] a = "mipsel" -> <<"mipsel">>
    [] a = "ppc"    -> <<"ppc">>
    [] a = "ppc64"  -> <<"ppc64">>
    [] a = "s390"   -> <<"s390">>
    [] a = "s390x"  -> <<"s390x">>

\* impl Display for NodeArch
NodeArch_fmt(a) ==
  CASE a = "x32"    -> <<"x32">>
    [] a = "x64"    -> <<"x64">>
    [] a = "ia32"   -> <<"ia32">>
    [] a = "arm"    -> <<"arm">>
    [] a = "arm64"  -> <<"arm64">>
    [] a = "mips"   -> <<"mips">>
    [] a = "mipsel" -> <<"mipsel">>
    [] a = "ppc"    -> <<"ppc">>
    [] a = "ppc64"  -> <<"ppc64">>
    [] a = "s390"   -> <<"s390">>
    [] a = "s390x"  -> <<"s390x">>

\* enum NodePlatform: a variant tag, and the String of unknown(String)
NodePlatform(variant, s) == [variant |-> variant, s |-> s]

\* NodePlatform::from_str without the "windows" arm
NodePlatform_from_str_no_windows(s) ==
  CASE s = <<"darwin">>  -> NodePlatform("darwin", <<>>)
    [] s = <<"freebsd">> -> NodePlatform("freebsd", <<>>)
    [] s = <<"openbsd">> -> NodePlatform("openbsd", <<>>)
    [] OTHER             -> NodePlatform("unknown", s)

\* NodePlatform::from_str: total, unknown(s) keeps the string
NodePlatform_from_str(s) ==
  CASE s = <<"darwin">>  -> NodePlatform("darwin", <<>>)
    [] s = <<"freebsd">> -> NodePlatform("freebsd", <<>>)
    [] s = <<"openbsd">> -> NodePlatform("openbsd", <<>>)
    [] s = <<"windows">> -> NodePlatform("win32", <<>>)
    [] OTHER             -> NodePlatform("unknown", s)

\* impl Display for NodePlatform
NodePlatform_fmt(p) ==
  CASE p.variant = "darwin"  -> <<"darwin">>
    [] p.variant = "freebsd" -> <<"freebsd">>
    [] p.variant = "openbsd" -> <<"openbsd">>
    [] p.variant = "win32"   -> <<"win32">>
    [] p.variant = "unknown" -> p.s

\* slice indexing parts[i] (0-based) panics when i is out of range
InRange(parts, i) == i < Len(parts)

\* Vec::get(i): Option<&T>
Get(parts, i) == IF i < Len(parts) THEN Some(parts[i + 1]) ELSE None

\* outcomes of a call: the struct, or the panic that unwinds out of it
PanicIndex(len, index) ==
  [kind |-> "Panic", panic |-> "index out of bounds", len |-> len,
   index |-> index]

PanicArch(cpu) ==
  [kind |-> "Panic", panic |-> "unsupported cpu arch", cpu |-> cpu]

\* platform_abi with arch and platform exchanged
platform_abi_arch_first(platform, arch, abi) ==
  IF abi.some
  THEN NodeArch_fmt(arch) \o <<Dash>> \o NodePlatform_fmt(platform)
         \o <<Dash>> \o abi.val
  ELSE NodeArch_fmt(arch) \o <<Dash>> \o NodePlatform_fmt(platform)

\* the platform_abi field: format!("{}-{}-{}", ..) or format!("{}-{}", ..)
platform_abi(platform, arch, abi) ==
  IF abi.some
  THEN NodePlatform_fmt(platform) \o <<Dash>> \o NodeArch_fmt(arch)
         \o <<Dash>> \o abi.val
  ELSE NodePlatform_fmt(platform) \o <<Dash>> \o NodeArch_fmt(arch)

\* the tuple with the system read from parts[1] and the abi from parts[2]
Segments_from_vendor(parts) ==
  IF Len(parts) = 2
  THEN [cpu |-> parts[1], sys |-> parts[2], abi |-> None]
  ELSE [cpu |-> parts[1], sys |-> parts[2], abi |-> Get(parts, 2)]

\* the (cpu, sys, abi) tuple of lines 149-153; both branches read parts[0]
\* and parts[2] (split never returns an empty Vec, so parts[0] exists)
Segments(parts) ==
  IF Len(parts) = 2
  THEN [cpu |-> parts[1], sys |-> parts[3], abi |-> None]
  ELSE [cpu |-> parts[1], sys |-> parts[3], abi |-> Get(parts, 3)]

\* impl From<&str> for PlatformDetail
From(t) ==
  LET parts == Split(t, Dash) IN
  IF ~InRange(parts, 2) THEN PanicIndex(Len(parts), 2)
  ELSE
    LET seg      == Segments(parts)
        platform == NodePlatform_from_str(seg.sys)
        arch     == NodeArch_from_str(seg.cpu)
    IN IF ~arch.some THEN PanicArch(seg.cpu)
       ELSE [kind         |-> "Ok",
             triple       |-> t,
             platform_abi |-> platform_abi(platform, arch.val, seg.abi),
             arch         |-> arch.val,
             platform     |-> platform,
             abi          |-> seg.abi]

-----------------------------------------------------------------------------
(* Inputs of the parser *)

Cpus ==
  {<<"x32">>, <<"x86_64">>, <<"i686">>, <<"armv7">>, <<"arrch64">>,
   <<"mips">>, <<"mipsel">>, <<"ppc">>, <<"ppc64">>, <<"s390">>, <<"s390x">>,
   <<"aarch64">>, <<"X86_64">>, <<"x64">>, <<>>}

Vendors == {<<"unknown">>, <<"apple">>, <<"pc">>, <<"linux">>, <<"windows">>}

Systems ==
  {<<"darwin">>, <<"freebsd">>, <<"openbsd">>, <<"windows">>, <<"linux">>,
   <<"win32">>, <<"Darwin">>, <<>>}

Abis == {<<"gnu">>, <<"musl">>, <<"msvc">>, <<>>}

\* the strings a segment in position i (1-based) is drawn from
SegChoices(i) ==
  CASE i = 1 -> Cpus
    [] i = 2 -> Vendors
    [] i = 3 -> Systems
    [] OTHER -> Abis

RECURSIVE SegLists(_)
SegLists(n) ==
  IF n = 0 THEN {<<>>}
  ELSE {Append(s, w) : s \in SegLists(n - 1), w \in SegChoices(n)}

TripleInputs ==
  {Join(s, Dash) : s \in UNION {SegLists(n) : n \in 1..MaxSegs}}
    \cup Range(AVAILABLE_TARGETS)

NoDetail == [kind |-> "None"]

-----------------------------------------------------------------------------
(* util.rs: write_file, on a file system of two directories and four files *)

\* NewCommand.path, the positional argument; fixed in this model
path == "app"

SrcDir == "app/src"

CargoTomlPath == "app/Cargo.toml"

LibRsPath == "app/src/lib.rs"

BuildRsPath == "app/build.rs"

PackageJsonPath == "app/package.json"

\* the paths execute writes, in the order of write_files / write_lib_files
Paths == <<CargoTomlPath, LibRsPath, BuildRsPath, PackageJsonPath>>

\* Path::parent
Parent(p) == IF p = LibRsPath THEN SrcDir ELSE path

\* fs::create_dir_all(d): d and its missing ancestors exist afterwards
create_dir_all(d) == IF d = SrcDir THEN dirs \cup {path, SrcDir} ELSE dirs \cup {d}

\* what a file holds: nothing (absent), what it held before the run (old),
\* a proper prefix left by a failed write_all (partial), or a whole text
Absent == [kind |-> "absent", text |-> <<>>]

Old == [kind |-> "old", text |-> <<>>]

Partial == [kind |-> "partial", text |-> <<>>]

Written(content) == [kind |-> "written", text |-> <<content>>]

\* the lines of println!
WritingFileLine(p) == [line |-> "Writing file: ", path |-> p, text |-> <<>>]

ContentLine(content) == [line |-> "content", path |-> "", text |-> <<content>>]

\* an environment variable is unset, set to a valid Unicode string (the
\* empty one included), or set to bytes that are not valid Unicode
EnvValues == {"unset", "unicode", "not unicode"}

\* env::var(key).is_ok(): Err(NotPresent) when unset, Err(NotUnicode) when the
\* value is not valid Unicode
env_var_is_ok(v) == v = "unicode"

\* the I/O call of write_file that returns an error, if any
Faults == {"none", "create_dir_all", "File::create", "write_all"}

\* write_file that prints in debug mode and writes all the same
write_file_debug_also_writes(p, content, fault) ==
  LET out == Append(stdout, WritingFileLine(p)) IN
  IF fault = "create_dir_all"
  THEN [dirs |-> dirs, files |-> files, stdout |-> out, ret |-> "Err"]
  ELSE IF fault = "File::create"
  THEN [dirs |-> create_dir_all(Parent(p)), files |-> files,
        stdout |-> out, ret |-> "Err"]
  ELSE IF fault = "write_all"
  THEN [dirs |-> create_dir_all(Parent(p)),
        files |-> [files EXCEPT ![p] = Partial],
        stdout |-> out, ret |-> "Err"]
  ELSE [dirs |-> create_dir_all(Parent(p)),
        files |-> [files EXCEPT ![p] = Written(content)],
        stdout |-> IF env_var_is_ok(NAPI_DEBUG)
                   THEN Append(out, ContentLine(content))
                   ELSE out,
        ret |-> "Ok"]

\* write_file(path, content): the file system and stdout it leaves and the
\* Result it returns, when the I/O call `fault` fails
write_file(p, content, fault) ==
  LET out == Append(stdout, WritingFileLine(p)) IN
  IF env_var_is_ok(NAPI_DEBUG)
  THEN [dirs |-> dirs, files |-> files,
        stdout |-> Append(out, ContentLine(content)), ret |-> "Ok"]
  ELSE IF fault = "create_dir_all"
  THEN [dirs |-> dirs, files |-> files, stdout |-> out, ret |-> "Err"]
  ELSE IF fault = "File::create"
  THEN [dirs |-> create_dir_all(Parent(p)), files |-> files,
        stdout |-> out, ret |-> "Err"]
  ELSE IF fault = "write_all"
  THEN [dirs |-> create_dir_all(Parent(p)),
        files |-> [files EXCEPT ![p] = Partial],
        stdout |-> out, ret |-> "Err"]
  ELSE [dirs |-> create_dir_all(Parent(p)),
        files |-> [files EXCEPT ![p] = Written(content)],
        stdout |-> out, ret |-> "Ok"]

-----------------------------------------------------------------------------
(* new.rs: NewCommand *)

\* str::trim_start_matches('@')
RECURSIVE trim_start_matches(_, _)
trim_start_matches(s, c) ==
  IF Len(s) > 0 /\ s[1] = c THEN trim_start_matches(Tail(s), c) ELSE s

\* str::replace(from, to) for one-character patterns
replace(s, from, to) == [i \in 1..Len(s) |-> IF s[i] = from THEN to ELSE s[i]]

package_name_to_crate_name(n) == replace(trim_start_matches(n, At), Slash, Dash)

package_name_to_binary_name(n) ==
  LET pieces == Split(n, Slash) IN pieces[Len(pieces)]

\* the rendered templates: the template and the context values it is given
cargo_toml(n) ==
  [template |-> "cargo_toml", name |-> package_name_to_crate_name(n),
   binary_name |-> <<>>, targets |-> <<>>]

lib_rs == [template |-> "lib_rs", name |-> <<>>, binary_name |-> <<>>,
           targets |-> <<>>]

build_rs == [template |-> "build_rs", name |-> <<>>, binary_name |-> <<>>,
             targets |-> <<>>]

package_json(n, t) ==
  [template |-> "package_json", name |-> n,
   binary_name |-> package_name_to_binary_name(n), targets |-> t]

\* answers the Input prompt can return (its default is the path)
NameAnswers == {<<path>>, <<"@", "scope", "/", "pkg">>}

\* values of --name and --targets on the command line
CliNames == {None, Some(<<"pkg">>), Some(<<"@", "napi", "/", "pkg">>)}

Wasm == <<"wasm32", "-", "unknown", "-", "unknown">>

CliTargets ==
  {None, Some(<<>>), Some(<<Wasm>>), Some(<<AVAILABLE_TARGETS[13], Wasm>>)}

\* the ascending index lists (0-based) MultiSelect::interact can return
RECURSIVE Ascending(_)
Ascending(S) ==
  IF S = {} THEN <<>>
  ELSE LET m == CHOOSE x \in S : \A y \in S : x <= y
       IN <<m>> \o Ascending(S \ {m})

Selections ==
  {Ascending(S) : S \in {T \in SUBSET (0..(Len(AVAILABLE_TARGETS) - 1)) :
                           Cardinality(T) <= MaxSelected}}

\* the flags with enable_all_targets tested first
flag_targets_all_first ==
  IF enable_all_targets THEN Some(AVAILABLE_TARGETS)
  ELSE IF enable_default_targets THEN Some(DEFAULT_TARGETS)
  ELSE None

\* lines 74-81: the list the flags decide, None when the prompt is needed
flag_targets ==
  IF enable_default_targets THEN Some(DEFAULT_TARGETS)
  ELSE IF enable_all_targets THEN Some(AVAILABLE_TARGETS)
  ELSE None

\* lines 100-104: the targets pushed for a non-empty selection
selected_targets(sel) == [i \in 1..Len(sel) |-> AVAILABLE_TARGETS[sel[i] + 1]]

\* a write_file call whose Result is dropped
propagate_ignoring_err(ret, next) == next

\* the `?` after a write_file call: where execute continues

propagate(ret, next) == IF ret = "Ok" THEN next ELSE "Err"

ParseIdle ==
  /\ triple = <<>>
  /\ ppc = "idle"
  /\ detail = [kind |-> "None"]

Init ==
  /\ ParseIdle
  /\ pc = "create_dir_all"
  /\ name \in CliNames
  /\ targets \in CliTargets
  /\ enable_default_targets \in BOOLEAN
  /\ enable_all_targets \in BOOLEAN
  /\ selected_target_indices = <<>>
  /\ name_prompts = 0
  /\ target_prompts = 0
  /\ NAPI_DEBUG \in EnvValues
  /\ \E fs \in {"fresh", "empty dir", "project"} :
       /\ dirs = CASE fs = "fresh" -> {}
                   [] fs = "empty dir" -> {path}
                   [] fs = "project" -> {path, SrcDir}
       /\ files = [p \in Range(Paths) |-> IF fs = "project" THEN Old ELSE Absent]
  /\ stdout = <<>>

\* execute, lines 42-47
CreateDir ==
  /\ pc = "create_dir_all"
  /\ \E ok \in BOOLEAN :
       IF ok THEN dirs' = create_dir_all(path) /\ pc' = "fetch_name"
       ELSE dirs' = dirs /\ pc' = "Err"
  /\ UNCHANGED <<parseVars, name, targets, enable_default_targets,
                 enable_all_targets, selected_target_indices, name_prompts,
                 target_prompts, NAPI_DEBUG, files, stdout>>

\* fetch_name: a supplied name is kept, otherwise the Input prompt is shown
\* once; interact_text().unwrap() panics when the terminal fails
FetchName ==
  /\ pc = "fetch_name"
  /\ IF name.some
     THEN /\ pc' = "fetch_targets"
          /\ UNCHANGED <<name, name_prompts>>
     ELSE /\ name_prompts' = name_prompts + 1
          /\ \/ \E answer \in NameAnswers :
                  name' = Some(answer) /\ pc' = "fetch_targets"
             \/ name' = name /\ pc' = "Panic"
  /\ UNCHANGED <<parseVars, targets, enable_default_targets,
                 enable_all_targets, selected_target_indices, target_prompts,
                 NAPI_DEBUG, dirs, files, stdout>>

\* fetch_targets without prompt: targets supplied, or decided by the flags
FetchTargets ==
  /\ pc = "fetch_targets"
  /\ targets.some \/ flag_targets.some
  /\ targets' = IF targets.some THEN targets ELSE flag_targets
  /\ pc' = "write_cargo_toml"
  /\ UNCHANGED <<parseVars, name, enable_default_targets, enable_all_targets,
                 selected_target_indices, name_prompts, target_prompts,
                 NAPI_DEBUG, dirs, files, stdout>>

\* fetch_targets, one turn of the loop of lines 83-106
SelectTargets ==
  /\ pc = "fetch_targets"
  /\ ~targets.some /\ ~flag_targets.some
  /\ target_prompts < MaxPrompts
  /\ target_prompts' = target_prompts + 1
  /\ \/ \E sel \in Selections :
          /\ sel = <<>> => target_prompts + 1 < MaxPrompts
          /\ selected_target_indices' = sel
          /\ IF sel # <<>>
             THEN targets' = Some(selected_targets(sel))
                  /\ pc' = "write_cargo_toml"
             ELSE UNCHANGED <<targets, pc>>
     \/ UNCHANGED <<selected_target_indices, targets>> /\ pc' = "Panic"
  /\ UNCHANGED <<parseVars, name, enable_default_targets, enable_all_targets,
                 name_prompts, NAPI_DEBUG, dirs, files, stdout>>

\* one write_file call of write_files and what its Result does to execute
WriteStep(at, p, content, next) ==
  /\ pc = at
  /\ \E fault \in Faults :
       LET r == write_file(p, content, fault) IN
         /\ dirs' = r.dirs
         /\ files' = r.files
         /\ stdout' = r.stdout
         /\ pc' = propagate(r.ret, next)
  /\ UNCHANGED <<parseVars, name, targets, enable_default_targets,
                 enable_all_targets, selected_target_indices, name_prompts,
                 target_prompts, NAPI_DEBUG>>

WriteCargoToml ==
  WriteStep("write_cargo_toml", CargoTomlPath, cargo_toml(name.val),
            "write_lib_rs")

WriteLibRs == WriteStep("write_lib_rs", LibRsPath, lib_rs, "write_build_rs")

WriteBuildRs ==
  WriteStep("write_build_rs", BuildRsPath, build_rs, "write_package_json")

WritePackageJson ==
  WriteStep("write_package_json", PackageJsonPath,
            package_json(name.val, targets.val), "Ok")

Next ==
  \/ CreateDir
  \/ FetchName
  \/ FetchTargets
  \/ SelectTargets
  \/ WriteCargoToml
  \/ WriteLibRs
  \/ WriteBuildRs
  \/ WritePackageJson

Spec == Init /\ [][Next]_vars

-----------------------------------------------------------------------------
(* Properties of NewCommand::execute and write_file, checked under Spec *)

WritePcs ==
  <<"write_cargo_toml", "write_lib_rs", "write_build_rs",
    "write_package_json">>

\* where execute continues after the i-th write_file call returned Ok
AfterWritePc == <<"write_lib_rs", "write_build_rs", "write_package_json", "Ok">>

Templates == <<"cargo_toml", "lib_rs", "build_rs", "package_json">>

\* the paths of the write_file calls made so far, from the lines they print
WriteCalls ==
  LET ls == SelectSeq(stdout, LAMBDA l : l.line = "Writing file: ")
  IN [i \in 1..Len(ls) |-> ls[i].path]

Untouched(p) == files[p].kind \in {"absent", "old"}

\* C7: fetch_targets decides the list by strict precedence: supplied targets
\* are kept and nothing is prompted; else enable_default_targets gives
\* DEFAULT_TARGETS (also when enable_all_targets is set); else
\* enable_all_targets gives AVAILABLE_TARGETS; else the prompt is repeated
\* until the selection is non-empty and the list is that selection.  When
\* not supplied the list is non-empty and drawn from AVAILABLE_TARGETS.
C7_FetchTargets ==
  [][pc = "fetch_targets" =>
      /\ targets.some =>
           /\ targets' = targets
           /\ target_prompts' = target_prompts
           /\ pc' = "write_cargo_toml"
      /\ (~targets.some /\ enable_default_targets) =>
           /\ targets' = Some(DEFAULT_TARGETS)
           /\ target_prompts' = target_prompts
           /\ pc' = "write_cargo_toml"
      /\ (~targets.some /\ ~enable_default_targets /\ enable_all_targets) =>
           /\ targets' = Some(AVAILABLE_TARGETS)
           /\ target_prompts' = target_prompts
           /\ pc' = "write_cargo_toml"
      /\ (~targets.some /\ ~enable_default_targets /\ ~enable_all_targets) =>
           /\ target_prompts' = target_prompts + 1
           /\ pc' \in {"fetch_targets", "write_cargo_toml", "Panic"}
           /\ pc' = "fetch_targets" =>
                selected_target_indices' = <<>> /\ targets' = targets
           /\ pc' = "write_cargo_toml" =>
                /\ selected_target_indices' # <<>>
                /\ targets'.some
                /\ Len(targets'.val) = Len(selected_target_indices')
                /\ \A i \in 1..Len(targets'.val) :
                     targets'.val[i] =
                       AVAILABLE_TARGETS[selected_target_indices'[i] + 1]
      /\ (~targets.some /\ pc' = "write_cargo_toml") =>
           /\ targets'.some
           /\ targets'.val # <<>>
           /\ \A i \in 1..Len(targets'.val) :
                targets'.val[i] \in Range(AVAILABLE_TARGETS)
  ]_vars

C7_Witness ==
  /\ pc = "write_cargo_toml"
  /\ ~enable_default_targets /\ ~enable_all_targets
  /\ target_prompts = 2
  /\ selected_target_indices = <<0, 12>>
  /\ targets = Some(<<AVAILABLE_TARGETS[1], AVAILABLE_TARGETS[13]>>)

\* the contract of one write_file call, `debug` telling whether it is in
\* debug mode: in debug mode it prints the content, creates no directory,
\* creates or truncates no file and returns Ok; otherwise it creates the
\* parent directories, then the file, then writes, and returns the first
\* I/O error, leaving undone what follows the failing call
WriteFileContract(debug) ==
  \A i \in 1..4 : pc = WritePcs[i] =>
    LET p == Paths[i] IN
    /\ \A q \in Range(Paths) \ {p} : files'[q] = files[q]
    /\ IF debug
       THEN /\ dirs' = dirs
            /\ files' = files
            /\ pc' = AfterWritePc[i]
            /\ Len(stdout') = Len(stdout) + 2
            /\ stdout'[Len(stdout')].line = "content"
            /\ stdout'[Len(stdout')].text[1].template = Templates[i]
       ELSE /\ pc' \in {AfterWritePc[i], "Err"}
            /\ stdout' = Append(stdout, WritingFileLine(p))
            /\ dirs \subseteq dirs'
            /\ pc' = AfterWritePc[i] =>
                 /\ Parent(p) \in dirs'
                 /\ files'[p].kind = "written"
                 /\ files'[p].text[1].template = Templates[i]
            /\ pc' = "Err" => files'[p] \in {files[p], Partial}
            /\ files'[p] # files[p] => Parent(p) \in dirs'

\* C8 as stated: debug mode is NAPI_DEBUG set to any value, and write_file
\* follows the contract above.
C8_DebugIsAnyValue == [][WriteFileContract(NAPI_DEBUG # "unset")]_vars

\* C8, amended: debug mode is NAPI_DEBUG set to a valid Unicode value (the
\* empty string included); unset or set to a non-Unicode value, write_file
\* writes.  In each mode write_file follows the contract above.
C8_WriteFile == [][WriteFileContract(NAPI_DEBUG = "unicode")]_vars

C8_Witness ==
  /\ NAPI_DEBUG = "unicode"
  /\ pc = "Ok"
  /\ dirs = {path}
  /\ \A q \in Range(Paths) : files[q] = Absent
  /\ Len(stdout) = 8
  /\ stdout[2].line = "content"

\* C9 as stated: execute returns Ok only after all four files have been
\* written.
C9_OkMeansFilesWritten ==
  pc = "Ok" => \A q \in Range(Paths) : files[q].kind = "written"

\* C9, amended: execute runs create_dir_all, fetch_name, fetch_targets and
\* the write_file calls for Cargo.toml, src/lib.rs, build.rs, package.json in
\* that order and stops at the first failure: a failed directory creation
\* returns Err with no prompt and no file touched, a failed write returns
\* Err with the later files untouched and the earlier ones left written, and
\* Ok is returned only after all four write_file calls returned Ok, which
\* means four written files outside debug mode and, in debug mode (NAPI_DEBUG
\* set to valid Unicode), four printed contents with no file written.
C9_ExecuteOrder ==
  LET n     == Len(WriteCalls)
      debug == NAPI_DEBUG = "unicode"
  IN
  /\ n <= 4 /\ \A i \in 1..n : WriteCalls[i] = Paths[i]
  /\ \A i \in 1..4 : pc = WritePcs[i] => n = i - 1
  /\ pc \notin {"create_dir_all", "Err"} => path \in dirs
  /\ (name_prompts > 0 \/ target_prompts > 0) => path \in dirs
  /\ (target_prompts > 0 \/ n > 0) => name.some
  /\ pc = "fetch_targets" => name.some
  /\ n > 0 => targets.some
  /\ (pc = "Err" /\ n = 0) =>
       /\ name_prompts = 0 /\ target_prompts = 0
       /\ \A q \in Range(Paths) : Untouched(q)
  /\ (pc = "Err" /\ n > 0) =>
       /\ ~debug
       /\ \A j \in 1..4 :
            /\ j < n => files[Paths[j]].kind = "written"
            /\ j > n => Untouched(Paths[j])
  /\ pc = "Ok" =>
       /\ n = 4
       /\ ~debug =>
            \A j \in 1..4 :
              /\ files[Paths[j]].kind = "written"
              /\ files[Paths[j]].text[1].template = Templates[j]
       /\ debug =>
            /\ \A j \in 1..4 : Untouched(Paths[j])
            /\ Len(stdout) = 8
            /\ \A j \in 1..4 :
                 stdout[2 * j].text[1].template = Templates[j]

C9_Witness ==
  /\ pc = "Err"
  /\ NAPI_DEBUG = "unset"
  /\ WriteCalls = <<CargoTomlPath, LibRsPath, BuildRsPath>>
  /\ files[CargoTomlPath].kind = "written"
  /\ files[LibRsPath].kind = "written"
  /\ files[BuildRsPath] = Partial
  /\ files[PackageJsonPath] = Absent

-----------------------------------------------------------------------------
(* NewCommand: values fixed during a run of the parser, see below *)

NewIdle ==
  /\ pc = "idle"
  /\ name = None
  /\ targets = None
  /\ enable_default_targets = FALSE
  /\ enable_all_targets = FALSE
  /\ selected_target_indices = <<>>
  /\ name_prompts = 0
  /\ target_prompts = 0
  /\ NAPI_DEBUG = "unset"
  /\ dirs = {}
  /\ files = <<>>
  /\ stdout = <<>>

-----------------------------------------------------------------------------
(* Specification of the parser: one call of PlatformDetail::from *)

ParseInit ==
  /\ triple \in TripleInputs
  /\ ppc = "call"
  /\ detail = NoDetail
  /\ NewIdle

Convert ==
  /\ ppc = "call"
  /\ detail' = From(triple)
  /\ ppc' = "return"
  /\ UNCHANGED <<triple, newVars>>

ParseNext == Convert

ParseSpec == ParseInit /\ [][ParseNext]_vars

-----------------------------------------------------------------------------
(* Properties of the parser, checked under ParseSpec *)

\* the dash-separated segments of the input, 1-based
segs == Split(triple, Dash)

Returned == ppc = "return"

\* the documented cpu table: cpu segment -> display name of the architecture
DocumentedArch ==
  [c \in {<<"x32">>, <<"x86_64">>, <<"i686">>, <<"armv7">>, <<"arrch64">>,
          <<"mips">>, <<"mipsel">>, <<"ppc">>, <<"ppc64">>, <<"s390">>,
          <<"s390x">>} |->
     CASE c = <<"x32">>     -> <<"x32">>
       [] c = <<"x86_64">>  -> <<"x64">>
       [] c = <<"i686">>    -> <<"ia32">>
       [] c = <<"armv7">>   -> <<"arm">>
       [] c = <<"arrch64">> -> <<"arm64">>
       [] c = <<"mips">>    -> <<"mips">>
       [] c = <<"mipsel">>  -> <<"mipsel">>
       [] c = <<"ppc">>     -> <<"ppc">>
       [] c = <<"ppc64">>   -> <<"ppc64">>
       [] c = <<"s390">>    -> <<"s390">>
       [] c = <<"s390x">>   -> <<"s390x">>]

TableCpus == DOMAIN DocumentedArch

X86AppleDarwin == <<"x86_64", "-", "apple", "-", "darwin">>

X86LinuxMusl == <<"x86_64", "-", "unknown", "-", "linux", "-", "musl">>

\* C1: every successful conversion has platform_abi = "<platform>-<arch>"
\* when abi is None and "<platform>-<arch>-<abi>" when abi is Some(abi), built
\* from the display strings of the descriptor's own platform and arch;
\* x86_64-apple-darwin gives "darwin-x64" with abi None.
C1_PlatformAbi ==
  (Returned /\ detail.kind = "Ok") =>
    /\ detail.platform_abi =
         IF detail.abi.some
         THEN Join(<<NodePlatform_fmt(detail.platform),
                     NodeArch_fmt(detail.arch), detail.abi.val>>, Dash)
         ELSE Join(<<NodePlatform_fmt(detail.platform),
                     NodeArch_fmt(detail.arch)>>, Dash)
    /\ triple = X86AppleDarwin =>
         detail.platform_abi = <<"darwin", "-", "x64">> /\ detail.abi = None
    /\ triple = X86LinuxMusl =>
         detail.platform_abi = <<"linux", "-", "x64", "-", "musl">>

C1_Witness ==
  /\ Returned /\ triple = X86AppleDarwin
  /\ detail.kind = "Ok" /\ ~detail.abi.some
  /\ detail.platform_abi = <<"darwin", "-", "x64">>

\* C2: a triple of fewer than 3 segments fails with a MalformedTriple error
\* carrying the input, never with an out-of-range panic, whatever its cpu.
C2_MalformedTriple ==
  (Returned /\ Len(segs) < 3) =>
    /\ detail.kind = "Err"
    /\ detail.error = "MalformedTriple"
    /\ detail.input = triple

\* C3: with at least 3 segments and a first segment outside the cpu table,
\* the conversion fails as unsupported architecture, the failure carries
\* the first segment, and no descriptor is produced.
C3_UnsupportedArchitecture ==
  (Returned /\ Len(segs) >= 3 /\ segs[1] \notin TableCpus) =>
    /\ detail.kind = "Panic"
    /\ detail.panic = "unsupported cpu arch"
    /\ detail.cpu = segs[1]

C3_Witness ==
  /\ Returned /\ triple = <<"aarch64", "-", "apple", "-", "darwin">>
  /\ detail = PanicArch(<<"aarch64">>)

\* C4: with at least 3 segments and a supported cpu the system segment never
\* fails the conversion; the platform displays as "win32" for "windows" and
\* as the system segment itself otherwise, darwin/freebsd/openbsd being the
\* variants of the same name and any other string s being unknown(s).
C4_SystemMapping ==
  (Returned /\ Len(segs) >= 3 /\ segs[1] \in TableCpus) =>
    /\ detail.kind = "Ok"
    /\ NodePlatform_fmt(detail.platform) =
         IF segs[3] = <<"windows">> THEN <<"win32">> ELSE segs[3]
    /\ detail.platform =
         CASE segs[3] = <<"darwin">>  -> [variant |-> "darwin", s |-> <<>>]
           [] segs[3] = <<"freebsd">> -> [variant |-> "freebsd", s |-> <<>>]
           [] segs[3] = <<"openbsd">> -> [variant |-> "openbsd", s |-> <<>>]
           [] segs[3] = <<"windows">> -> [variant |-> "win32", s |-> <<>>]
           [] OTHER -> [variant |-> "unknown", s |-> segs[3]]

C4_Witness ==
  /\ Returned /\ Len(segs) >= 3 /\ segs[1] = <<"x86_64">>
  /\ segs[3] = <<"linux">>
  /\ detail.kind = "Ok"
  /\ detail.platform = [variant |-> "unknown", s |-> <<"linux">>]
  /\ NodePlatform_fmt(detail.platform) = <<"linux">>

\* C5: for every cpu of the table the descriptor's arch displays as the
\* documented short name, and distinct table cpus display differently.
C5_ArchMapping ==
  (Returned /\ Len(segs) >= 3 /\ segs[1] \in TableCpus) =>
    /\ detail.kind = "Ok"
    /\ NodeArch_fmt(detail.arch) = DocumentedArch[segs[1]]
    /\ \A c \in TableCpus :
         (NodeArch_from_str(c).some /\ c # segs[1]) =>
           NodeArch_fmt(NodeArch_from_str(c).val) # NodeArch_fmt(detail.arch)

C5_Witness ==
  /\ Returned /\ Len(segs) >= 3 /\ segs[1] = <<"i686">>
  /\ detail.kind = "Ok" /\ NodeArch_fmt(detail.arch) = <<"ia32">>

\* the input with its vendor segment replaced by v
WithVendor(v) == Join([segs EXCEPT ![2] = v], Dash)

\* C6: with at least 3 segments and a supported cpu the descriptor is built
\* from segments 0, 2 and 3 only: abi is Some(segment 3) exactly when a
\* fourth segment exists, and changing the vendor segment changes none of
\* arch, platform, abi, platform_abi.
C6_SegmentsUsed ==
  (Returned /\ Len(segs) >= 3 /\ segs[1] \in TableCpus) =>
    /\ detail.kind = "Ok"
    /\ NodeArch_fmt(detail.arch) = DocumentedArch[segs[1]]
    /\ NodePlatform_fmt(detail.platform) =
         IF segs[3] = <<"windows">> THEN <<"win32">> ELSE segs[3]
    /\ detail.abi = IF Len(segs) >= 4 THEN Some(segs[4]) ELSE None
    /\ \A v \in Vendors :
         LET other == From(WithVendor(v)) IN
           /\ other.kind = "Ok"
           /\ other.arch = detail.arch
           /\ other.platform = detail.platform
           /\ other.abi = detail.abi
           /\ other.platform_abi = detail.platform_abi

C6_Witness ==
  /\ Returned /\ triple = X86LinuxMusl
  /\ detail.kind = "Ok"
  /\ detail.arch = "x64"
  /\ detail.platform = [variant |-> "unknown", s |-> <<"linux">>]
  /\ detail.abi = Some(<<"musl">>)
  /\ From(<<"x86_64", "-", "pc", "-", "linux", "-", "musl">>).platform_abi
       = detail.platform_abi

\* C10: every entry of AVAILABLE_TARGETS (hence of DEFAULT_TARGETS) is
\* converted into a descriptor without failure.
C10_AvailableTargetsConvert ==
  (Returned /\ triple \in Range(AVAILABLE_TARGETS)) => detail.kind = "Ok"

====
